---- MODULE Spec2Model ----
(***************************************************************************)
(* Model of src/src/lib.rs: BeTree, a map built from fixed-capacity leaf   *)
(* nodes and branch nodes holding pivots.                                  *)
(*                                                                         *)
(* Conventions.                                                            *)
(*  - Sequences are 1-based: slot i of the source is slot i+1 here.        *)
(*  - A key is a record [rank, tag]. Ord/Eq of the source's K look at the  *)
(*    rank only; the tag is the part of a key that `==` cannot see.        *)
(*  - Option<V> is a sequence: None is <<>>, Some(v) is <<v>>.             *)
(*  - A leaf is [type, elements, len]; elements always has                 *)
(*    max_values_per_leaf slots. The only read of a slot at an index       *)
(*    >= len is min_key's read of elements[0] of a leaf with len = 0, so   *)
(*    the first slot is kept exactly: Uninit while never written           *)
(*    (mem::uninitialized; its read yields an arbitrary key), else the     *)
(*    entry last written there, which slice_remove and clear leave behind. *)
(*    The other slots at an index >= len are never read and hold Uninit.   *)
(*  - A panic ends the run: `panicked` becomes TRUE and nothing is enabled.*)
(*  - Operations of Node return a SET of outcomes [node, panic, arm,       *)
(*    of_empty], because reading an undefined slot is a nondeterministic   *)
(*    choice; of_empty tells that min_key was called on a leaf of len 0.   *)
(*  - Spec is the map from BeTree::new on. No branch arises in it, because *)
(*    every split panics in LeafNode::from. NodeSpec applies the same      *)
(*    operations to the branch that the split path is written to build     *)
(*    (two half leaves under their minimum keys), at most MaxSteps times.  *)
(***************************************************************************)
EXTENDS Integers, Sequences, FiniteSets, TLC

max_values_per_leaf == 4

\* Bounds of the model: keys have the ranks 0..MaxRank, one more than a leaf
\* holds; NodeSpec applies at most MaxSteps operations to an input branch
MaxRank == 4
MaxSteps == 2

\* The code compares keys (by rank) and nothing else. Tags and values are
\* opaque to it (K: Copy, V: Clone; never inspected), so two of each are
\* enough to tell a replaced key or value from the one it replaces.
Ranks == 0..MaxRank
Tags == {"a", "b"}
Keys == [rank : Ranks, tag : Tags]
Values == {"x", "y"}

\* the keys passed to get and delete, which only compare them
ProbeKeys == {k \in Keys : k.tag = "a"}

None == <<>>
Some(v) == <<v>>

\* K: Ord, as used by `key <= p.min_key` and by binary_search_by_key
KeyLe(a, b) == a.rank <= b.rank
KeyEq(a, b) == a.rank = b.rank
KeyLt(a, b) == a.rank < b.rank

Uninit == <<>>
\* fillers for the fields of `call` that a call does not have
NoKey == [rank |-> -1, tag |-> "a"]
NoValue == ""

Leaf(elements, len) == [type |-> "Leaf", elements |-> elements, len |-> len]
Branch(pivots) == [type |-> "Branch", pivots |-> pivots]
Pivot(min_key, child) == [min_key |-> min_key, child |-> child]

\* LeafNode::empty
empty == Leaf([i \in 1..max_values_per_leaf |-> Uninit], 0)

\* LeafNode::valid_elements / valid_elements_mut: &elements[0..len]
valid_elements(leaf) == SubSeq(leaf.elements, 1, leaf.len)

\* outcome of a Node operation
Done(node, arm) == [node |-> node, panic |-> FALSE, arm |-> arm, of_empty |-> FALSE]
Panic(node, arm) == [node |-> node, panic |-> TRUE, arm |-> arm, of_empty |-> FALSE]

\* LeafNode::from: the length is never set, and clone_from_slice panics
\* unless the source slice is as long as the whole elements array.
LeafNode_from(items, debug) ==
    IF debug /\ ~(Len(items) <= max_values_per_leaf)
    THEN [panic |-> TRUE, leaf |-> empty]
    ELSE IF Len(items) # Len(empty.elements)
         THEN [panic |-> TRUE, leaf |-> empty]
         ELSE [panic |-> FALSE, leaf |-> Leaf(items, empty.len)]

\* Node::min_key: the set of results, each [panic, key, of_empty]
min_key(self, debug) ==
    IF self.type = "Branch"
    THEN IF Len(self.pivots) = 0
         THEN {[panic |-> TRUE, key |-> NoKey, of_empty |-> FALSE]}
         ELSE {[panic |-> FALSE, key |-> self.pivots[1].min_key, of_empty |-> FALSE]}
    ELSE IF debug /\ ~(self.len # 0)
         THEN {[panic |-> TRUE, key |-> NoKey, of_empty |-> TRUE]}
         ELSE IF self.elements[1] = Uninit
              THEN {[panic |-> FALSE, key |-> k, of_empty |-> self.len = 0] : k \in Keys}
              ELSE {[panic |-> FALSE, key |-> self.elements[1][1], of_empty |-> self.len = 0]}

\* slice::binary_search_by_key over a sorted slice s, searching s[lo..hi-1]:
\* [ok |-> TRUE, idx] for Ok(idx), [ok |-> FALSE, idx] for Err(idx)
RECURSIVE binary_search(_, _, _, _)
binary_search(s, key, lo, hi) ==
    IF lo >= hi
    THEN [ok |-> FALSE, idx |-> lo]
    ELSE LET mid == lo + ((hi - lo) \div 2)
         IN  IF KeyEq(s[mid][1], key)
             THEN [ok |-> TRUE, idx |-> mid]
             ELSE IF KeyLt(s[mid][1], key)
                  THEN binary_search(s, key, mid + 1, hi)
                  ELSE binary_search(s, key, lo, mid)

binary_search_by_key(s, key) == binary_search(s, key, 1, Len(s) + 1)

\* mutant of slice_insert: nothing is moved, val is written behind the slice
slice_insert_at_end(elements, len, idx, val) ==
    [j \in 1..Len(elements) |-> IF j = len + 1 THEN val ELSE elements[j]]

\* slice_insert on the slice elements[0..len]: moves the len - idx entries
\* from idx one slot to the right (the last lands in slot len, which the
\* caller has checked to exist) and writes val at idx.
slice_insert(elements, len, idx, val) ==
    [j \in 1..Len(elements) |->
        IF j < idx THEN elements[j]
        ELSE IF j = idx THEN val
        ELSE IF j <= len + 1 THEN elements[j - 1]
        ELSE elements[j]]

\* what a slot outside the valid prefix keeps of the entry e left in it
stale(j, e) == IF j = 1 THEN e ELSE Uninit

\* slice_remove on the slice elements[0..len]: moves the entries after idx
\* one slot to the left; the last slot of the slice is not written, and is
\* outside the valid prefix once the caller has decremented len.
slice_remove(elements, len, idx) ==
    [j \in 1..Len(elements) |->
        IF j < idx THEN elements[j]
        ELSE IF j < len THEN elements[j + 1]
        ELSE IF j = len THEN stale(j, elements[j])
        ELSE elements[j]]

\* iter().position / find: the first pivot with key <= p.min_key, 0 for None
position(pivots, key) ==
    IF \E i \in 1..Len(pivots) : KeyLe(key, pivots[i].min_key)
    THEN CHOOSE i \in 1..Len(pivots) :
            /\ KeyLe(key, pivots[i].min_key)
            /\ \A j \in 1..(i - 1) : ~KeyLe(key, pivots[j].min_key)
    ELSE 0

\* mutant of leaf_replace: the entry is found but nothing is written
leaf_replace_no_write(leaf, i, key, value) == leaf

\* Node::insert, Leaf arm, Ok(i): the whole tuple is assigned
leaf_replace(leaf, i, key, value) ==
    Leaf([leaf.elements EXCEPT ![i] = <<key, value>>], leaf.len)

\* Node::insert, Leaf arm, Err(i) with leaf.len < max_values_per_leaf
leaf_insert_at(leaf, i, key, value) ==
    Leaf(slice_insert(leaf.elements, leaf.len, i, <<key, value>>), leaf.len + 1)

\* Node::insert, Leaf arm, Err(i) with a full leaf: builds the new branch.
\* The key and the value of the call are not used.
leaf_split(leaf, debug) ==
    LET valid == valid_elements(leaf)
        mid == max_values_per_leaf \div 2
        left == SubSeq(valid, 1, mid)
        right == SubSeq(valid, mid + 1, Len(valid))
        l == LeafNode_from(left, debug)
        r == LeafNode_from(right, debug)
    IN  IF l.panic \/ r.panic
        THEN {Panic(leaf, "split")}
        ELSE { [ (IF lk.panic \/ rk.panic
                  THEN Panic(leaf, "split")
                  ELSE Done(Branch(<<Pivot(lk.key, l.leaf), Pivot(rk.key, r.leaf)>>), "split"))
                 EXCEPT !.of_empty = lk.of_empty \/ rk.of_empty ]
               : lk \in min_key(l.leaf, debug), rk \in min_key(r.leaf, debug) }

\* Node::insert, Leaf arm
leaf_insert(leaf, key, value, debug) ==
    LET index == binary_search_by_key(valid_elements(leaf), key)
    IN  IF ~index.ok
        THEN IF leaf.len < max_values_per_leaf
             THEN {Done(leaf_insert_at(leaf, index.idx, key, value), "insert")}
             ELSE leaf_split(leaf, debug)
        ELSE {Done(leaf_replace(leaf, index.idx, key, value), "replace")}

\* Node::insert
RECURSIVE Node_insert(_, _, _, _)
Node_insert(self, key, value, debug) ==
    IF self.type = "Branch"
    THEN LET pivots == self.pivots
             i == position(pivots, key)
         IN  IF i # 0
             THEN { [node |-> Branch([pivots EXCEPT ![i] = Pivot(key, o.node)]),
                     panic |-> o.panic, arm |-> o.arm, of_empty |-> o.of_empty]
                    : o \in Node_insert(pivots[i].child, key, value, debug) }
             ELSE {Done(Branch(Append(pivots, Pivot(key, empty))), "push")}
    ELSE leaf_insert(self, key, value, debug)

\* mutant of leaf_delete: Ok(i) removes the first entry instead of entry i
leaf_delete_first(leaf, key) ==
    IF leaf.len > 0
    THEN LET index == binary_search_by_key(valid_elements(leaf), key)
         IN  IF index.ok
             THEN Done(Leaf(slice_remove(leaf.elements, leaf.len, 1), leaf.len - 1), "remove")
             ELSE Done(leaf, "absent")
    ELSE Done(leaf, "absent")

\* mutant of leaf_delete: Err(i) is treated like Ok(i) when i is a valid slot
leaf_delete_err_as_ok(leaf, key) ==
    IF leaf.len > 0
    THEN LET index == binary_search_by_key(valid_elements(leaf), key)
         IN  IF index.ok \/ index.idx <= leaf.len
             THEN Done(Leaf(slice_remove(leaf.elements, leaf.len, index.idx), leaf.len - 1), "remove")
             ELSE Done(leaf, "absent")
    ELSE Done(leaf, "absent")

\* Node::delete, Leaf arms
leaf_delete(leaf, key) ==
    IF leaf.len > 0
    THEN LET index == binary_search_by_key(valid_elements(leaf), key)
         IN  IF index.ok
             THEN Done(Leaf(slice_remove(leaf.elements, leaf.len, index.idx), leaf.len - 1), "remove")
             ELSE Done(leaf, "absent")
    ELSE Done(leaf, "absent")

\* Node::delete
RECURSIVE Node_delete(_, _, _)
Node_delete(self, key, debug) ==
    IF self.type = "Branch"
    THEN LET pivots == self.pivots
             i == position(pivots, key)
         IN  IF i # 0
             THEN UNION { IF o.panic
                          THEN {[Panic(Branch([pivots EXCEPT ![i] = Pivot(pivots[i].min_key, o.node)]), o.arm)
                                 EXCEPT !.of_empty = o.of_empty]}
                          ELSE { [ (IF m.panic
                                    THEN Panic(Branch([pivots EXCEPT ![i] = Pivot(pivots[i].min_key, o.node)]), o.arm)
                                    ELSE Done(Branch([pivots EXCEPT ![i] = Pivot(m.key, o.node)]), o.arm))
                                   EXCEPT !.of_empty = o.of_empty \/ m.of_empty ]
                                 : m \in min_key(o.node, debug) }
                          : o \in Node_delete(pivots[i].child, key, debug) }
             ELSE {Done(self, "absent")}
    ELSE {leaf_delete(self, key)}

\* Node::get
RECURSIVE Node_get(_, _)
Node_get(self, key) ==
    IF self.type = "Branch"
    THEN LET i == position(self.pivots, key)
         IN  IF i # 0 THEN Node_get(self.pivots[i].child, key) ELSE None
    ELSE IF self.len > 0
         THEN LET index == binary_search_by_key(valid_elements(self), key)
              IN  IF index.ok THEN Some(self.elements[index.idx][2]) ELSE None
         ELSE None

\* mutant of BeTree_clear: only a branch root is replaced, a leaf keeps its len
BeTree_clear_branch_only(root) ==
    IF root.type = "Leaf" THEN root ELSE empty

\* BeTree::clear
BeTree_clear(root) ==
    IF root.type = "Leaf" THEN Leaf([i \in 1..Len(root.elements) |-> stale(i, root.elements[i])], 0)
    ELSE empty

\* every entry stored in a valid prefix of a leaf of the tree, in order
RECURSIVE Entries(_)
Entries(node) ==
    IF node.type = "Branch"
    THEN LET RECURSIVE cat(_)
             cat(i) == IF i > Len(node.pivots) THEN <<>>
                       ELSE Entries(node.pivots[i].child) \o cat(i + 1)
         IN  cat(1)
    ELSE valid_elements(node)

\* the number of stored entries, and the stored key objects of one rank
Count(node) == Len(Entries(node))
StoredKeys(node, rank) == SelectSeq(Entries(node), LAMBDA e : e[1].rank = rank)

(***************************************************************************)
(* The map as a state machine                                              *)
(***************************************************************************)
VARIABLES
    root,              \* BeTree.root (lib.rs 193-195)
    debug_assertions,  \* whether the build keeps debug_assert! (lib.rs 26, 56)
    panicked,          \* a call has panicked (lib.rs 28, 56)
    call,              \* the last call: [name, key, value, arm, ret, before, of_empty],
                       \* before = the number of entries stored when it was made,
                       \* of_empty = it called min_key on a leaf with len = 0
    reference,         \* rank -> Option<V>: what a reference map would hold
    only_inserts,      \* the map is new and no delete or clear has been called yet
    steps              \* NodeSpec: the number of operations applied to the input

vars == <<root, debug_assertions, panicked, call, reference, only_inserts, steps>>

NoCall == [name |-> "new", key |-> NoKey, value |-> NoValue, arm |-> "", ret |-> None,
           before |-> 0, of_empty |-> FALSE]

\* BeTree::new
Init ==
    /\ root = empty
    /\ debug_assertions \in BOOLEAN
    /\ panicked = FALSE
    /\ call = NoCall
    /\ reference = [r \in Ranks |-> None]
    /\ only_inserts = TRUE
    /\ steps = 0

\* BeTree::insert
insert(key, value) ==
    /\ ~panicked
    /\ \E o \in Node_insert(root, key, value, debug_assertions) :
          /\ root' = o.node
          /\ panicked' = o.panic
          /\ call' = [name |-> "insert", key |-> key, value |-> value, arm |-> o.arm,
                      ret |-> None, before |-> Count(root), of_empty |-> o.of_empty]
    /\ reference' = [reference EXCEPT ![key.rank] = Some(value)]
    /\ UNCHANGED <<debug_assertions, only_inserts>>

\* BeTree::delete
delete(key) ==
    /\ ~panicked
    /\ \E o \in Node_delete(root, key, debug_assertions) :
          /\ root' = o.node
          /\ panicked' = o.panic
          /\ call' = [name |-> "delete", key |-> key, value |-> NoValue, arm |-> o.arm,
                      ret |-> None, before |-> Count(root), of_empty |-> o.of_empty]
    /\ reference' = [reference EXCEPT ![key.rank] = None]
    /\ only_inserts' = FALSE
    /\ UNCHANGED debug_assertions

\* BeTree::get
get(key) ==
    /\ ~panicked
    /\ call' = [name |-> "get", key |-> key, value |-> NoValue, arm |-> "",
                ret |-> Node_get(root, key), before |-> Count(root), of_empty |-> FALSE]
    /\ UNCHANGED <<root, debug_assertions, panicked, reference, only_inserts>>

\* BeTree::clear
clear ==
    /\ ~panicked
    /\ root' = BeTree_clear(root)
    /\ call' = [name |-> "clear", key |-> NoKey, value |-> NoValue,
                arm |-> IF root.type = "Leaf" THEN "leaf" ELSE "branch",
                ret |-> None, before |-> Count(root), of_empty |-> FALSE]
    /\ reference' = [r \in Ranks |-> None]
    /\ only_inserts' = FALSE
    /\ UNCHANGED <<debug_assertions, panicked>>

\* The calls on the map made by BeTree::new
Insert(key, value) == insert(key, value) /\ UNCHANGED steps
Delete(key) == delete(key) /\ UNCHANGED steps
Get(key) == get(key) /\ UNCHANGED steps
Clear == clear /\ UNCHANGED steps

Next ==
    \/ \E key \in Keys, value \in Values : Insert(key, value)
    \/ \E key \in ProbeKeys : Delete(key)
    \/ \E key \in ProbeKeys : Get(key)
    \/ Clear

Spec == Init /\ [][Next]_vars

(***************************************************************************)
(* The operations of Node on a branch.                                     *)
(* The only code that builds a branch is the split path of Node::insert,   *)
(* and it panics in LeafNode::from before the branch exists. The inputs    *)
(* here are the branches that path is written to build from a full leaf:   *)
(* vec![Pivot {left.min_key(), left}, Pivot {right.min_key(), right}] with *)
(* the two halves of the leaf as leaves of len max_values_per_leaf / 2.    *)
(***************************************************************************)
\* the sorted entries of a set of ranks, as a run of inserts (k, "x") leaves them
RECURSIVE sorted_entries(_)
sorted_entries(S) ==
    IF S = {} THEN <<>>
    ELSE LET r == CHOOSE x \in S : \A y \in S : x <= y
         IN  <<<<[rank |-> r, tag |-> "a"], "x">>>> \o sorted_entries(S \ {r})

\* a leaf holding items in its first slots
leaf_of(items) ==
    Leaf([i \in 1..max_values_per_leaf |-> IF i <= Len(items) THEN items[i] ELSE Uninit],
         Len(items))

\* the full leaves a run of inserts builds
FullLeaves ==
    {leaf_of(sorted_entries(S)) : S \in {T \in SUBSET Ranks : Cardinality(T) = max_values_per_leaf}}

\* a half of a split leaf as the split is described: a leaf of its own whose
\* len is the number of its entries (LeafNode::from itself panics on a half)
half_leaf(items) == leaf_of(items)

\* the branch of lines 91-101 over the two halves of a full leaf
split_branch(leaf) ==
    LET valid == valid_elements(leaf)
        mid == max_values_per_leaf \div 2
        left == SubSeq(valid, 1, mid)
        right == SubSeq(valid, mid + 1, Len(valid))
    IN  Branch(<<Pivot(left[1][1], half_leaf(left)), Pivot(right[1][1], half_leaf(right))>>)

NodeInit ==
    /\ root \in {split_branch(leaf) : leaf \in FullLeaves}
    /\ debug_assertions \in BOOLEAN
    /\ panicked = FALSE
    /\ call = NoCall
    /\ reference = [r \in Ranks |-> IF StoredKeys(root, r) # <<>> THEN Some("x") ELSE None]
    /\ only_inserts = FALSE
    /\ steps = 0

Step == steps < MaxSteps /\ steps' = steps + 1

NodeInsert(key, value) == insert(key, value) /\ Step
NodeDelete(key) == delete(key) /\ Step
NodeGet(key) == get(key) /\ Step
NodeClear == clear /\ Step

NodeNext ==
    \/ \E key \in Keys, value \in Values : NodeInsert(key, value)
    \/ \E key \in ProbeKeys : NodeDelete(key)
    \/ \E key \in ProbeKeys : NodeGet(key)
    \/ NodeClear

NodeSpec == NodeInit /\ [][NodeNext]_vars

(***************************************************************************)
(* Properties                                                              *)
(***************************************************************************)
Present(node) == {k \in ProbeKeys : Node_get(node, k) # None}
SameGets(a, b, keys) == \A j \in keys : Node_get(a, j) = Node_get(b, j)

\* C1: after a sequence of insert calls only (no delete, no clear), get(k)
\* of every inserted key k returns the value of the last insert of k, also
\* when more than max_values_per_leaf distinct keys were inserted.
C1_RoundTrip ==
    only_inserts =>
        \A k \in ProbeKeys :
            reference[k.rank] # None => Node_get(root, k) = reference[k.rank]

\* C2: no call of insert, delete, get or clear fails (panics).
C2_NoFailure == ~panicked

\* C3: an insert of an absent key that reaches a full leaf completes, and
\* every key that get returned a value for before the call is returned with
\* the same value after it.
C3_NoLossOnOverflow ==
    [][(call'.name = "insert" /\ call'.arm = "split") =>
          /\ ~panicked'
          /\ SameGets(root, root', Present(root))]_vars

\* C4: the keys for which get returns a value are exactly the keys inserted
\* and not deleted or cleared since.
C4_Agreement ==
    {k.rank : k \in Present(root)} = {r \in Ranks : reference[r] # None}

\* C5: insert(k, v2) of a present key k completes, leaves exactly one entry
\* for k, makes get(k) return v2 and keeps the number of stored entries.
C5_Replace ==
    [][(call'.name = "insert" /\ Node_get(root, call'.key) # None) =>
          /\ ~panicked'
          /\ Len(StoredKeys(root', call'.key.rank)) = 1
          /\ Node_get(root', call'.key) = Some(call'.value)
          /\ Count(root') = Count(root)]_vars

\* a present key has been replaced in a full leaf
C5_Witness ==
    /\ call.name = "insert" /\ call.arm = "replace" /\ ~panicked
    /\ call.before = max_values_per_leaf
    /\ Node_get(root, call.key) = Some(call.value)

\* C6: after delete(k), get(k) is absent and get(j) of every other key j is
\* what it was before the call.
C6_DeleteOne ==
    [][call'.name = "delete" =>
          /\ ~panicked'
          /\ Node_get(root', call'.key) = None
          /\ SameGets(root, root', {j \in ProbeKeys : j.rank # call'.key.rank})]_vars

\* a present key has been deleted from a leaf that keeps other entries
C6_Witness ==
    /\ call.name = "delete" /\ call.arm = "remove" /\ ~panicked
    /\ call.before >= 3 /\ Count(root) = call.before - 1
    /\ Node_get(root, call.key) = None

\* C7: delete(k) of an absent key k completes and leaves get(j) unchanged
\* for every key j; an empty map stays empty.
C7_DeleteAbsent ==
    [][(call'.name = "delete" /\ Node_get(root, call'.key) = None) =>
          /\ ~panicked'
          /\ SameGets(root, root', ProbeKeys)
          /\ Count(root') = Count(root)
          /\ (root = empty => root' = empty)]_vars

\* an absent key has been deleted from a leaf holding entries
C7_Witness ==
    /\ call.name = "delete" /\ call.arm = "absent" /\ ~panicked
    /\ call.before >= 2 /\ Count(root) = call.before

\* C8: after clear() the root is a leaf with len = 0 and get(k) is absent
\* for every key k (get does not change the root, so this lasts until the
\* next insert).
C8_Clear ==
    /\ call.name = "clear" =>
          /\ root.type = "Leaf" /\ root.len = 0
          /\ Present(root) = {}
    /\ (call.name = "get" /\ \A r \in Ranks : reference[r] = None) => call.ret = None

\* a map holding entries has been cleared
C8_Witness ==
    /\ call.name = "clear" /\ call.before = max_values_per_leaf
    /\ root.type = "Leaf" /\ root.len = 0

C10_SplitResult ==
    [][(call'.name = "insert" /\ call'.arm = "split" /\ root.type = "Leaf") =>
          /\ root'.type = "Branch"
          /\ Len(root'.pivots) = 2
          /\ LET p == root'.pivots
                 h == max_values_per_leaf \div 2
                 v == valid_elements(root)
             IN  /\ KeyLt(p[1].min_key, p[2].min_key)
                 /\ p[1].child.type = "Leaf" /\ p[1].child.len = h
                 /\ valid_elements(p[1].child) = SubSeq(v, 1, h)
                 /\ p[2].child.type = "Leaf" /\ p[2].child.len = h
                 /\ valid_elements(p[2].child) = SubSeq(v, h + 1, Len(v))
                 /\ p[1].min_key = v[1][1]
                 /\ p[2].min_key = v[h + 1][1]]_vars

(***************************************************************************)
(* Properties of the branch arms                                           *)
(***************************************************************************)
\* the leaves of a tree, and its branches
RECURSIVE Leaves(_)
Leaves(node) ==
    IF node.type = "Branch"
    THEN UNION {Leaves(node.pivots[i].child) : i \in 1..Len(node.pivots)}
    ELSE {node}

RECURSIVE Branches(_)
Branches(node) ==
    IF node.type = "Branch"
    THEN {node} \cup UNION {Branches(node.pivots[i].child) : i \in 1..Len(node.pivots)}
    ELSE {}

\* the variants and fan-outs of a tree, without keys and entries
RECURSIVE Shape(_)
Shape(node) ==
    IF node.type = "Branch"
    THEN [i \in 1..Len(node.pivots) |-> Shape(node.pivots[i].child)]
    ELSE "Leaf"

\* the pivot's boundary is the minimum key stored under it
BoundaryIsMin(pivot) ==
    LET es == Entries(pivot.child)
    IN  /\ es # <<>>
        /\ \E i \in 1..Len(es) : KeyEq(es[i][1], pivot.min_key)
        /\ \A i \in 1..Len(es) : KeyLe(pivot.min_key, es[i][1])

C14_LeafInvariant ==
    /\ \A leaf \in Leaves(root) :
          /\ leaf.len <= max_values_per_leaf
          /\ \A i \in 1..leaf.len : leaf.elements[i] # Uninit
          /\ \A i \in 1..(leaf.len - 1) : KeyLt(leaf.elements[i][1], leaf.elements[i + 1][1])
    /\ (call.name = "insert" /\ call.arm = "insert") => Count(root) = call.before + 1
    /\ (call.name = "delete" /\ call.arm = "remove") => Count(root) = call.before - 1

\* an entry has been inserted in front of three others, and so shifted them
C14_Witness ==
    /\ call.name = "insert" /\ call.arm = "insert" /\ ~panicked
    /\ root.type = "Leaf" /\ root.len = max_values_per_leaf
    /\ root.elements[1][1] = call.key

====
